---- MODULE Spec2Model ----
(***************************************************************************)
(* poissonProcess (dtocean_maintenance/staticMethods.py): estimation of    *)
(* the random failure occurrences of a component.                          *)
(*                                                                         *)
(* Time is counted in ticks of 30 minutes.  A datetime is the number of    *)
(* ticks since 0001-01-01 00:00 (datetime.min); the float quantities of    *)
(* the code that are measured in days (simulationTime, dt, timeStepAll)    *)
(* are held in ticks as well, so that 24 ticks are 0.5 day.  The rate is   *)
(* an integer number of failures per day.                                  *)
(***************************************************************************)
EXTENDS Integers, Sequences, FiniteSets, TLC

VARIABLES
    startOperationDate,      \* argument: datetime
    simulationTime,          \* argument: days, in ticks
    failureRate,             \* argument: 1/day
    pc,                      \* position in poissonProcess
    err,                     \* the exception the call ended with, or "none"
    dummyStartOperationDate, endOperationDate,
    lCnt, timeStepAll, timeStep, number,
    numberLoop, timeStepLoop,
    lowerPercentileValue,    \* in hundredths of an event
    upperPercentileValue,    \* in hundredths of an event
    numberLoopFilt, timeStepLoopFilt,
    loopIndex, TimeStamp, iCnt, randomList,
    draws,                   \* outputs taken from the random module since it was seeded
    tape,                    \* the outputs the seed in use has produced so far
    recording,               \* whether the outputs of the seed are kept in tape
    callNo,                  \* 1: first call, 2: the call repeated under the same seed
    firstList                \* what the first call returned

args    == <<startOperationDate, simulationTime, failureRate>>
dates   == <<dummyStartOperationDate, endOperationDate>>
trial   == <<lCnt, timeStepAll, timeStep, number>>
loops   == <<numberLoop, timeStepLoop>>
filt    == <<lowerPercentileValue, upperPercentileValue, numberLoopFilt, timeStepLoopFilt>>
mat     == <<loopIndex, TimeStamp, iCnt, randomList>>
rng     == <<draws, tape, recording>>
harness == <<callNo, firstList>>
vars    == <<args, pc, err, dates, trial, loops, filt, mat, rng, harness>>

----------------------------------------------------------------------------
(* Calendar *)

TicksPerHour == 2
TicksPerDay  == 48

\* datetime.datetime(year, month, day, hour, minute) of the day with proleptic
\* Gregorian ordinal `ordinal`, minute being 0 or 30
Datetime(ordinal, hour, halfHour) == ((ordinal - 1) * 24 + hour) * TicksPerHour + halfHour

\* the last tick of datetime.max = 9999-12-31 23:59:59.999999 (ordinal 3652059)
DatetimeMax == Datetime(3652059, 23, 1)

\* datetime + timedelta raises OverflowError outside datetime.min .. datetime.max
Representable(t) == 0 <= t /\ t <= DatetimeMax

\* datetime.datetime(d.year, d.month, d.day, d.hour): minutes and below dropped
TruncateToHour(d) == d - (d % TicksPerHour)

\* int(np.round(x)) of x days, x given in ticks: nearest whole day, halves to even
RoundDays(x) ==
    LET q == x \div TicksPerDay
        r == x % TicksPerDay
    IN  IF 2 * r < TicksPerDay THEN q
        ELSE IF 2 * r > TicksPerDay THEN q + 1
        ELSE IF q % 2 = 0 THEN q ELSE q + 1

----------------------------------------------------------------------------
(* Bounds and input domains *)

\* the number of trials (2000 in the code)
loopNumber == 3
lowerPercentile == 40
upperPercentile == 70

\* cap on the draws of one trial; only a loop that never ends meets it
MaxTrialDraws == 5

\* -math.log(1.0 - random.random()), in ticks times the rate: 1, 1.5 and 4
\* (positive values: the value 0 of random.random() = 0.0 is left out)
ExpDraws == {48, 72, 192}

\* 2020-01-01 05:30, 9999-12-30 00:00, 9999-12-31 00:00
Starts == {Datetime(737425, 5, 1), Datetime(3652058, 0, 0), Datetime(3652059, 0, 0)}

\* -1, 0, 1 and 1.625 days
Horizons == {-48, 0, 48, 78}

Rates == {-1, 0, 1, 2}

----------------------------------------------------------------------------
(* Helpers *)

RECURSIVE Sum(_)
Sum(s) == IF s = <<>> THEN 0 ELSE Head(s) + Sum(Tail(s))

Front(s) == SubSeq(s, 1, Len(s) - 1)

\* a / b of floats, for the values of the model (b divides a)
Quot(a, b) == IF b > 0 THEN a \div b ELSE -(a \div (-b))

\* line 113 with < for <=
LessStrict(a, b) == a < b

LessEq(a, b) == a <= b

\* 100 * np.percentile(a, p), linear interpolation between the sorted values
Percentile(a, p) ==
    LET s    == SortSeq(a, LAMBDA x, y: x < y)
        v    == (Len(a) - 1) * p
        i    == v \div 100
        frac == v % 100
    IN  IF frac = 0 THEN 100 * s[i + 1]
        ELSE 100 * s[i + 1] + frac * (s[i + 2] - s[i + 1])

\* an output of a source the seed does not govern
UnseededValue(v, S) == v \in S

\* the next output of the random module is v, S being the outputs it can give:
\* the seed decides it when this output was produced under the seed before
RandomValue(v, S) ==
    IF draws < Len(tape) THEN v = tape[draws + 1] ELSE v \in S

Taken(v) ==
    /\ draws' = draws + 1
    /\ tape' = IF recording /\ draws >= Len(tape) THEN Append(tape, v) ELSE tape
    /\ UNCHANGED recording

----------------------------------------------------------------------------
(* poissonProcess *)

LocalsInit ==
    /\ pc = "call" /\ err = "none"
    /\ dummyStartOperationDate = 0 /\ endOperationDate = 0
    /\ lCnt = 0 /\ timeStepAll = 0 /\ timeStep = <<>> /\ number = 0
    /\ numberLoop = <<>> /\ timeStepLoop = <<>>
    /\ lowerPercentileValue = 0 /\ upperPercentileValue = 0
    /\ numberLoopFilt = <<>> /\ timeStepLoopFilt = <<>>
    /\ loopIndex = -1 /\ TimeStamp = 0 /\ iCnt = 0 /\ randomList = <<>>

Init ==
    /\ startOperationDate \in Starts
    /\ simulationTime \in Horizons
    /\ failureRate \in Rates
    /\ LocalsInit
    /\ draws = 0 /\ tape = <<>> /\ recording = FALSE
    /\ callNo = 1 /\ firstList = <<>>

\* lines 41-64
Call ==
    /\ pc = "call" /\ err = "none"
    /\ dummyStartOperationDate' = TruncateToHour(startOperationDate)
    /\ IF Representable(dummyStartOperationDate' + simulationTime)
       THEN /\ endOperationDate' = dummyStartOperationDate' + simulationTime
            /\ pc' = "for"
            /\ UNCHANGED err
       ELSE /\ err' = "OverflowError"
            /\ UNCHANGED <<endOperationDate, pc>>
    /\ UNCHANGED <<args, trial, loops, filt, mat, rng, harness>>

\* lines 67-70: the next trial starts
TrialBegin ==
    /\ pc = "for" /\ err = "none"
    /\ lCnt < loopNumber
    /\ timeStepAll' = 0
    /\ timeStep' = <<>>
    /\ number' = 0
    /\ pc' = "while"
    /\ UNCHANGED <<args, err, dates, lCnt, loops, filt, mat, rng, harness>>

\* Draw without line 76: the running sum is never advanced
DrawNoAccumulate(e) ==
    /\ pc = "while" /\ err = "none"
    /\ timeStepAll < simulationTime
    /\ Len(timeStep) < MaxTrialDraws
    /\ RandomValue(e, ExpDraws)
    /\ Taken(e)
    /\ IF failureRate = 0
       THEN /\ err' = "ZeroDivisionError"
            /\ UNCHANGED <<timeStepAll, timeStep, number>>
       ELSE /\ number' = number + 1
            /\ timeStep' = Append(timeStep, Quot(e, failureRate))
            /\ UNCHANGED <<timeStepAll, err>>
    /\ UNCHANGED <<args, pc, dates, lCnt, loops, filt, mat, harness>>

\* lines 72-78: one pass of the calculation loop
Draw(e) ==
    /\ pc = "while" /\ err = "none"
    /\ timeStepAll < simulationTime
    /\ Len(timeStep) < MaxTrialDraws
    /\ RandomValue(e, ExpDraws)
    /\ Taken(e)
    /\ IF failureRate = 0
       THEN /\ err' = "ZeroDivisionError"
            /\ UNCHANGED <<timeStepAll, timeStep, number>>
       ELSE /\ timeStepAll' = timeStepAll + Quot(e, failureRate)
            /\ number' = number + 1
            /\ timeStep' = Append(timeStep, Quot(e, failureRate))
            /\ UNCHANGED err
    /\ UNCHANGED <<args, pc, dates, lCnt, loops, filt, mat, harness>>

\* TrialEnd without line 82: the overshooting gap stays in the trial
TrialEndKeepLast ==
    /\ pc = "while" /\ err = "none"
    /\ ~(timeStepAll < simulationTime)
    /\ number' = number - 1
    /\ numberLoop' = Append(numberLoop, number')
    /\ timeStepLoop' = Append(timeStepLoop, timeStep)
    /\ lCnt' = lCnt + 1
    /\ pc' = "for"
    /\ UNCHANGED <<args, err, dates, timeStepAll, timeStep, filt, mat, rng, harness>>

\* lines 81-85: the last entry is deleted, the trial is saved
TrialEnd ==
    /\ pc = "while" /\ err = "none"
    /\ ~(timeStepAll < simulationTime)
    /\ number' = number - 1
    /\ IF timeStep = <<>>
       THEN /\ err' = "IndexError"
            /\ UNCHANGED <<timeStep, numberLoop, timeStepLoop, lCnt, pc>>
       ELSE /\ timeStep' = Front(timeStep)
            /\ numberLoop' = Append(numberLoop, number')
            /\ timeStepLoop' = Append(timeStepLoop, timeStep')
            /\ lCnt' = lCnt + 1
            /\ pc' = "for"
            /\ UNCHANGED err
    /\ UNCHANGED <<args, dates, timeStepAll, filt, mat, rng, harness>>

\* line 90, the open band of the commented-out filter
InBandOpen(n, lower, upper) == 100 * n > lower /\ 100 * n < upper

\* line 92: the trial of count n lies in the percentile band
InBand(n, lower, upper) == 100 * n >= lower /\ 100 * n <= upper

\* FilterN with the results of lines 87 and 88 exchanged: the upper value holds
\* the lower percentile and the lower value the upper one
FilterNSwapped(n) ==
    /\ pc = "for" /\ err = "none"
    /\ lCnt = n
    /\ upperPercentileValue' = Percentile(numberLoop, lowerPercentile)
    /\ lowerPercentileValue' = Percentile(numberLoop, upperPercentile)
    /\ LET keep(i) == InBand(numberLoop[i], lowerPercentileValue', upperPercentileValue')
           F[i \in 0..n] ==
               IF i = 0 THEN <<>>
               ELSE IF keep(i) THEN Append(F[i - 1], i) ELSE F[i - 1]
           idx == F[n]
       IN  /\ numberLoopFilt' = [j \in 1..Len(idx) |-> numberLoop[idx[j]]]
           /\ timeStepLoopFilt' = [j \in 1..Len(idx) |-> timeStepLoop[idx[j]]]
    /\ pc' = "select"
    /\ UNCHANGED <<args, err, dates, trial, loops, mat, rng, harness>>

\* lines 87-94, for a population of n trials
FilterN(n) ==
    /\ pc = "for" /\ err = "none"
    /\ lCnt = n
    /\ upperPercentileValue' = Percentile(numberLoop, upperPercentile)
    /\ lowerPercentileValue' = Percentile(numberLoop, lowerPercentile)
    /\ LET keep(i) == InBand(numberLoop[i], lowerPercentileValue', upperPercentileValue')
           F[i \in 0..n] ==
               IF i = 0 THEN <<>>
               ELSE IF keep(i) THEN Append(F[i - 1], i) ELSE F[i - 1]
           idx == F[n]
       IN  /\ numberLoopFilt' = [j \in 1..Len(idx) |-> numberLoop[idx[j]]]
           /\ timeStepLoopFilt' = [j \in 1..Len(idx) |-> timeStepLoop[idx[j]]]
    /\ pc' = "select"
    /\ UNCHANGED <<args, err, dates, trial, loops, mat, rng, harness>>

\* lines 87-94
Filter == FilterN(loopNumber)

\* Select with random.randint(0, len(numberLoopFilt)): one index too many
SelectOffByOne(r) ==
    /\ pc = "select" /\ err = "none"
    /\ RandomValue(r, 0..Len(numberLoopFilt))
    /\ Taken(r)
    /\ IF r < Len(numberLoopFilt)
       THEN /\ loopIndex' = r
            /\ timeStep' = timeStepLoopFilt[r + 1]
            /\ number' = numberLoopFilt[r + 1]
            /\ TimeStamp' = dummyStartOperationDate
            /\ iCnt' = 0
            /\ pc' = IF Len(timeStep') > 0 THEN "materialize" ELSE "return"
            /\ UNCHANGED err
       ELSE /\ loopIndex' = r
            /\ err' = "IndexError"
            /\ UNCHANGED <<timeStep, number, TimeStamp, iCnt, pc>>
    /\ UNCHANGED <<args, dates, lCnt, timeStepAll, loops, filt, randomList, harness>>

\* lines 96-104
Select(r) ==
    /\ pc = "select" /\ err = "none"
    /\ IF Len(numberLoopFilt) > 0
       THEN /\ RandomValue(r, 0..(Len(numberLoopFilt) - 1))
            /\ Taken(r)
            /\ loopIndex' = r
            /\ timeStep' = timeStepLoopFilt[r + 1]
            /\ number' = numberLoopFilt[r + 1]
       ELSE /\ r = 0
            /\ timeStep' = <<>>
            /\ number' = 0
            /\ UNCHANGED <<loopIndex, rng>>
    /\ TimeStamp' = dummyStartOperationDate
    /\ iCnt' = 0
    /\ pc' = IF Len(timeStep') > 0 THEN "materialize" ELSE "return"
    /\ UNCHANGED <<args, err, dates, lCnt, timeStepAll, loops, filt, randomList, harness>>

\* Materialize without the test of line 113: every candidate is appended
MaterializeNoClip ==
    /\ pc = "materialize" /\ err = "none"
    /\ LET AddTime == RoundDays(timeStep[iCnt + 1])
           next    == TimeStamp + AddTime * TicksPerDay
       IN  IF ~Representable(next)
           THEN /\ err' = "OverflowError"
                /\ UNCHANGED <<TimeStamp, randomList, iCnt, pc>>
           ELSE /\ TimeStamp' = next
                /\ UNCHANGED err
                /\ randomList' = Append(randomList, next)
                /\ iCnt' = iCnt + 1
                /\ pc' = IF iCnt + 1 < Len(timeStep) THEN "materialize" ELSE "return"
    /\ UNCHANGED <<args, dates, trial, loops, filt, loopIndex, rng, harness>>

\* lines 106-116: one pass of the loop over the selected trial
Materialize ==
    /\ pc = "materialize" /\ err = "none"
    /\ LET AddTime == RoundDays(timeStep[iCnt + 1])
           next    == TimeStamp + AddTime * TicksPerDay
       IN  IF ~Representable(next)
           THEN /\ err' = "OverflowError"
                /\ UNCHANGED <<TimeStamp, randomList, iCnt, pc>>
           ELSE /\ TimeStamp' = next
                /\ UNCHANGED err
                /\ IF LessEq(next, endOperationDate)
                   THEN /\ randomList' = Append(randomList, next)
                        /\ iCnt' = iCnt + 1
                        /\ pc' = IF iCnt + 1 < Len(timeStep) THEN "materialize" ELSE "return"
                   ELSE /\ pc' = "return"
                        /\ UNCHANGED <<randomList, iCnt>>
    /\ UNCHANGED <<args, dates, trial, loops, filt, loopIndex, rng, harness>>

\* line 119
Return ==
    /\ pc = "return" /\ err = "none"
    /\ pc' = "returned"
    /\ UNCHANGED <<args, err, dates, trial, loops, filt, mat, rng, harness>>

Next ==
    \/ Call
    \/ TrialBegin
    \/ \E e \in ExpDraws : Draw(e)
    \/ TrialEnd
    \/ Filter
    \/ \E r \in 0..(loopNumber - 1) : Select(r)
    \/ Materialize
    \/ Return

Spec == Init /\ [][Next]_vars

\* the statements of the call are executed one after the other: a call that can
\* take a step takes it
FairSpec == Init /\ [][Next]_vars /\ WF_vars(Next)

----------------------------------------------------------------------------
(* Two calls with the same arguments under the same seed *)

\* <<simulationTime, failureRate>>
SeededArgs == {<<48, 1>>, <<48, 2>>, <<78, 1>>}

InitSeeded ==
    /\ startOperationDate = Datetime(737425, 5, 1)
    /\ \E a \in SeededArgs : simulationTime = a[1] /\ failureRate = a[2]
    /\ LocalsInit
    /\ draws = 0 /\ tape = <<>> /\ recording = TRUE
    /\ callNo = 1 /\ firstList = <<>>

\* random.seed(s) with the seed of the first call, then poissonProcess again with
\* the arguments of the first call (lines 41-57 set the locals anew)
Recall ==
    /\ pc = "returned" /\ err = "none"
    /\ callNo = 1
    /\ callNo' = 2
    /\ firstList' = randomList
    /\ draws' = 0
    /\ pc' = "call"
    /\ dummyStartOperationDate' = 0 /\ endOperationDate' = 0
    /\ lCnt' = 0 /\ timeStepAll' = 0 /\ timeStep' = <<>> /\ number' = 0
    /\ numberLoop' = <<>> /\ timeStepLoop' = <<>>
    /\ lowerPercentileValue' = 0 /\ upperPercentileValue' = 0
    /\ numberLoopFilt' = <<>> /\ timeStepLoopFilt' = <<>>
    /\ loopIndex' = -1 /\ TimeStamp' = 0 /\ iCnt' = 0 /\ randomList' = <<>>
    /\ UNCHANGED <<args, err, tape, recording>>

NextSeeded ==
    \/ Next
    \/ Recall

SpecSeeded == InitSeeded /\ [][NextSeeded]_vars

----------------------------------------------------------------------------
(* Properties *)

ValidCall == failureRate > 0 /\ simulationTime > 0

\* every datetime the call computes is representable: a candidate timestamp is at
\* most the horizon end plus one retained gap rounded, and a retained gap is
\* shorter than simulationTime
FarFromMax ==
    Representable(TruncateToHour(startOperationDate) + simulationTime
                  + RoundDays(simulationTime) * TicksPerDay)

\* C1 as stated: every call with failureRate > 0 and simulationTime > 0, whatever the
\* start date, goes on until it returns a list: it raises no exception and is never
\* left without a next step.
C1_ReturnsForAnyStart == ValidCall => (pc = "returned" \/ (err = "none" /\ ENABLED Next))

\* C1, amended: every call with failureRate > 0 and simulationTime > 0 whose start
\* date leaves room below datetime.max for the horizon and one rounded gap ends by
\* returning a list: every trial loop reaches the horizon and nothing is raised.
C1_Terminates == (ValidCall /\ FarFromMax) ~> (pc = "returned" /\ err = "none")

C1_Witness ==
    /\ ValidCall /\ FarFromMax
    /\ pc = "returned"
    /\ Len(numberLoop) = loopNumber
    /\ Len(randomList) >= 2

InList(t) == \E i \in 1..Len(randomList) : randomList[i] = t

\* C2 as stated: every returned timestamp t satisfies start <= t <= start + horizon,
\* start being the startOperationDate the caller passed.
C2_WithinPassedStart ==
    pc = "returned" =>
        \A i \in 1..Len(randomList) :
            /\ startOperationDate <= randomList[i]
            /\ randomList[i] <= startOperationDate + simulationTime

\* C2, amended: every returned timestamp t satisfies start0 <= t <= start0 + horizon,
\* start0 being the startOperationDate truncated to the hour (so t may precede the
\* start passed by less than an hour, and t <= start + horizon).
C2_WithinTruncatedStart ==
    \A i \in 1..Len(randomList) :
        /\ TruncateToHour(startOperationDate) <= randomList[i]
        /\ randomList[i] <= TruncateToHour(startOperationDate) + simulationTime
        /\ randomList[i] <= startOperationDate + simulationTime

\* a returned list that holds the truncated start and the horizon end
C2_Witness ==
    /\ pc = "returned"
    /\ startOperationDate # TruncateToHour(startOperationDate)
    /\ InList(TruncateToHour(startOperationDate) + simulationTime)

\* C3 as stated: the returned list is strictly increasing.
C3_StrictlyIncreasing ==
    pc = "returned" =>
        \A i \in 1..(Len(randomList) - 1) : randomList[i] < randomList[i + 1]

\* C4 as stated (for a positive horizon and a start far from datetime.max): a call with
\* failureRate <= 0 makes no random draw and ends with InvalidRateError, nothing else.
C4_InvalidRateError ==
    (failureRate <= 0 /\ simulationTime > 0 /\ FarFromMax) =>
        /\ draws = 0
        /\ err \in {"none", "InvalidRateError"}

\* C5 as stated (for a positive rate and a start far from datetime.max): a call with
\* simulationTime <= 0 ends with InvalidHorizonError before any random draw, with no
\* other fault and no schedule.
C5_InvalidHorizonError ==
    (simulationTime <= 0 /\ failureRate > 0 /\ FarFromMax) =>
        /\ draws = 0
        /\ err \in {"none", "InvalidHorizonError"}
        /\ pc # "returned"

\* the gaps a rate and the outputs of the random module can give
Gaps == {Quot(e, failureRate) : e \in ExpDraws}

\* C6: every saved trial keeps the gaps drawn before the running sum met the horizon:
\* the count is the number of kept gaps and is >= 0, their sum is below simulationTime,
\* and exactly one drawn gap, the one that reached the horizon, is discarded per trial.
C6_TrialKeepsGapsBelowHorizon ==
    /\ Len(timeStepLoop) = Len(numberLoop)
    /\ \A i \in 1..Len(numberLoop) :
          /\ numberLoop[i] = Len(timeStepLoop[i])
          /\ numberLoop[i] >= 0
          /\ Sum(timeStepLoop[i]) < simulationTime
    /\ (pc = "while" /\ err = "none") =>
          /\ timeStepAll = Sum(timeStep)
          /\ number = Len(timeStep)
    /\ (pc = "for" /\ lCnt > 0) =>
          /\ timeStepLoop[lCnt] = timeStep
          /\ numberLoop[lCnt] = number
          /\ timeStepAll >= simulationTime
          /\ timeStepAll - Sum(timeStep) \in Gaps
          /\ draws = Sum(numberLoop) + lCnt

C6_Witness ==
    /\ pc = "for" /\ lCnt = loopNumber
    /\ \E i \in 1..lCnt : numberLoop[i] = 0
    /\ \E i \in 1..lCnt : numberLoop[i] = 3

FilterDone == pc \in {"select", "materialize", "return", "returned"}

\* the trials whose count lies in the closed percentile band
Band ==
    {i \in 1..Len(numberLoop) :
        /\ lowerPercentileValue <= 100 * numberLoop[i]
        /\ 100 * numberLoop[i] <= upperPercentileValue}

\* the j-th trial of the band, in the order of generation
BandTrial(j) == CHOOSE i \in Band : Cardinality({k \in Band : k < i}) = j - 1

\* C7: the filtered population is exactly the trials whose count lies in the closed
\* interval between the 40th and the 70th percentile of all counts, each with its
\* own gaps; a count equal to a bound is inside, no count outside is kept.
C7_FilterKeepsClosedBand ==
    FilterDone =>
        /\ lowerPercentileValue = Percentile(numberLoop, lowerPercentile)
        /\ upperPercentileValue = Percentile(numberLoop, upperPercentile)
        /\ Len(numberLoopFilt) = Cardinality(Band)
        /\ Len(timeStepLoopFilt) = Cardinality(Band)
        /\ \A j \in 1..Cardinality(Band) :
              /\ numberLoopFilt[j] = numberLoop[BandTrial(j)]
              /\ timeStepLoopFilt[j] = timeStepLoop[BandTrial(j)]

\* kept trials whose count equals the lower bound, with gaps of their own, and a
\* trial left out above the upper bound
C7_Witness ==
    /\ pc = "select"
    /\ \E j \in 1..Len(numberLoopFilt) : 100 * numberLoopFilt[j] = lowerPercentileValue
    /\ lowerPercentileValue < upperPercentileValue
    /\ \E i \in 1..Len(numberLoop) : 100 * numberLoop[i] > upperPercentileValue
    /\ \E j \in 1..Len(timeStepLoopFilt) : timeStepLoopFilt[j] # timeStepLoopFilt[1]

\* C8: selection raises nothing; from a non-empty filtered population the selected
\* trial is the member at loopIndex, 0 <= loopIndex <= len - 1, gaps and count of one
\* trial; from an empty one the call returns the empty list.
C8_SelectsFromFiltered ==
    /\ pc = "select" => err = "none"
    /\ pc \in {"materialize", "return", "returned"} =>
          IF Len(numberLoopFilt) > 0
          THEN /\ loopIndex \in 0..(Len(numberLoopFilt) - 1)
               /\ timeStep = timeStepLoopFilt[loopIndex + 1]
               /\ number = numberLoopFilt[loopIndex + 1]
               /\ \E i \in Band : timeStep = timeStepLoop[i] /\ number = numberLoop[i]
          ELSE /\ timeStep = <<>>
               /\ number = 0
               /\ pc # "materialize"
               /\ randomList = <<>>
               /\ err = "none"

\* the last member of a filtered population of several trials is selected
C8_Witness ==
    /\ pc = "materialize"
    /\ Len(numberLoopFilt) >= 2
    /\ loopIndex = Len(numberLoopFilt) - 1
    /\ timeStepLoopFilt[1] # timeStep

RECURSIVE Candidate(_)
Candidate(j) ==
    IF j = 0 THEN TruncateToHour(startOperationDate)
    ELSE Candidate(j - 1) + RoundDays(timeStep[j]) * TicksPerDay

HorizonEnd == TruncateToHour(startOperationDate) + simulationTime

----------------------------------------------------------------------------
(* The percentile filter and the selector on any population of trials *)

\* the largest population and the largest event count of a trial
MaxPopulation == 5
MaxCount == 3

\* a gap of half a day
HalfDay == TicksPerDay \div 2

\* the state at the end of the trial loop of a call that ran n >= 3 trials (loopNumber
\* = n), for every sequence of event counts: a trial of count c kept c gaps of half a
\* day and was ended by a gap that reached the horizon
InitBand ==
    /\ startOperationDate = Datetime(737425, 5, 1)
    /\ simulationTime = (MaxCount + 1) * HalfDay
    /\ failureRate = 2
    /\ pc = "for" /\ err = "none"
    /\ dummyStartOperationDate = TruncateToHour(startOperationDate)
    /\ endOperationDate = dummyStartOperationDate + simulationTime
    /\ \E n \in 3..MaxPopulation :
          /\ lCnt = n
          /\ numberLoop \in [1..n -> 0..MaxCount]
    /\ timeStepLoop = [i \in 1..lCnt |-> [j \in 1..numberLoop[i] |-> HalfDay]]
    /\ timeStep = timeStepLoop[lCnt]
    /\ number = numberLoop[lCnt]
    /\ timeStepAll = Sum(timeStep) + simulationTime
    /\ lowerPercentileValue = 0 /\ upperPercentileValue = 0
    /\ numberLoopFilt = <<>> /\ timeStepLoopFilt = <<>>
    /\ loopIndex = -1 /\ TimeStamp = 0 /\ iCnt = 0 /\ randomList = <<>>
    /\ draws = Sum(numberLoop) + lCnt /\ tape = <<>> /\ recording = FALSE
    /\ callNo = 1 /\ firstList = <<>>

NextBand ==
    \/ \E n \in 3..MaxPopulation : FilterN(n)
    \/ \E r \in 0..(MaxPopulation - 1) : Select(r)

SpecBand == InitBand /\ [][NextBand]_vars

\* C11: with the percentiles 40 and 70 and linear interpolation, the filtered
\* population of any N >= 3 trials is not empty, whatever their event counts: a trial
\* count lies in [lowerPercentileValue, upperPercentileValue], and the selector never
\* takes its empty-population branch.
C11_FilteredNeverEmpty ==
    /\ pc = "select" =>
          /\ Len(numberLoopFilt) > 0
          /\ \E i \in 1..Len(numberLoop) :
                InBand(numberLoop[i], lowerPercentileValue, upperPercentileValue)
    /\ pc \in {"materialize", "return"} => loopIndex \in 0..(Len(numberLoopFilt) - 1)

\* one trial only is kept, out of the largest population, its count lying strictly
\* between the interpolated percentile values
C11_Witness ==
    /\ pc = "select"
    /\ Len(numberLoop) = MaxPopulation
    /\ Len(numberLoopFilt) = 1
    /\ lowerPercentileValue < 100 * numberLoopFilt[1]
    /\ 100 * numberLoopFilt[1] < upperPercentileValue

====
